---- MODULE Spec2Model ----
(***************************************************************************)
(* Model of options_risk_tool.py: a Streamlit script that is re-run from   *)
(* top to bottom on every user interaction.  One run of the script is one  *)
(* action (Rerun).  The only state that survives a run is                   *)
(* st.session_state; everything else is recomputed from the widgets.       *)
(*                                                                         *)
(* Numbers.  The script computes with Python floats.  The model computes   *)
(* with exact rationals n/d (d > 0, lowest terms) and the two special      *)
(* outcomes a float expression of the script can have: float('inf') and    *)
(* the ZeroDivisionError Python raises for x / 0.0.  Rounding error of     *)
(* binary floating point and the ":.2f" formatting of the rendered text    *)
(* are not modelled: the page holds the values handed to the formatter.    *)
(***************************************************************************)
EXTENDS Integers, Sequences, FiniteSets, TLC

VARIABLES
    session_state,      \* st.session_state: a mapping, key "trade_history"
    widgets,            \* the widget values the current run reads
    max_risk,           \* script variable, line 55
    position_size,      \* script variable, line 56
    greeks,             \* script variable, line 59
    risk_reward_ratio,  \* script variable, line 60
    contracts_shown,    \* the value position_size / (100 * entry_price), line 73
    page,               \* the elements the current run rendered, in order
    history_table,      \* the rows of st.table(history_df), line 124
    outcome,            \* how the current run ended
    uuids_issued,       \* number of uuid.uuid4() calls made so far
    now,                \* the clock: number of runs started so far
    call                \* a direct call of one calculator: function, arguments, result

vars == << session_state, widgets, max_risk, position_size, greeks,
           risk_reward_ratio, contracts_shown, page, history_table, outcome,
           uuids_issued, now, call >>

session_vars == << session_state, widgets, max_risk, position_size, greeks,
                   risk_reward_ratio, contracts_shown, page, history_table,
                   outcome, uuids_issued, now >>

-----------------------------------------------------------------------------
(* Bounds of the model *)

\* number of script runs in a session
MaxRuns == 4
\* largest price (dollars) handed to a calculator called directly
MaxPrice == 8
\* largest number of contracts handed to the position sizing
MaxContracts == 2
\* largest percentage (volatility, interest rate) and number of days to expiry
MaxPercent == 2
MaxDays == 2

-----------------------------------------------------------------------------
(* Python float values: exact rationals, inf, and a raised ZeroDivisionError *)

Abs(i) == IF i < 0 THEN -i ELSE i

RECURSIVE GCD(_, _)
GCD(a, b) == IF b = 0 THEN a ELSE GCD(b, a % b)

\* the rational n/d, d # 0, in lowest terms with a positive denominator
Num(n, d) ==
    LET g == GCD(Abs(n), Abs(d))
        s == IF d < 0 THEN -1 ELSE 1
    IN  [kind |-> "num", n |-> (s * n) \div g, d |-> (s * d) \div g]

Inf == [kind |-> "inf", n |-> 1, d |-> 0]
ZeroDivisionError == [kind |-> "ZeroDivisionError", n |-> 0, d |-> 0]
Unset == [kind |-> "unset", n |-> 0, d |-> 0]

IsNum(x) == x.kind = "num"

mul(x, y) == Num(x.n * y.n, x.d * y.d)
sub(x, y) == Num(x.n * y.d - y.n * x.d, x.d * y.d)
lt(x, y) == x.n * y.d < y.n * x.d
IsZero(x) == x.n = 0

\* Python's x / y on floats: raises ZeroDivisionError when y == 0
truediv(x, y) ==
    IF IsZero(y) THEN ZeroDivisionError ELSE Num(x.n * y.d, x.d * y.n)

\* Python's min(a, b): b when b < a, else a
min(a, b) == IF lt(b, a) THEN b ELSE a

-----------------------------------------------------------------------------
(* The calculators *)

GreekKeys == {"Delta", "Gamma", "Theta", "Vega", "Rho"}

\* calculate_greeks with a Delta that follows moneyness
calculate_greeks_moneyness(option_type, stock_price, strike_price, time_to_expiry, volatility, interest_rate) ==
    LET in_the_money == IF option_type = "Call"
                        THEN lt(strike_price, stock_price)
                        ELSE lt(stock_price, strike_price)
        magnitude == IF in_the_money THEN Num(3, 4) ELSE Num(1, 2)
    IN  [Delta |-> IF option_type = "Call" THEN magnitude
                   ELSE sub(Num(0, 1), magnitude),
         Gamma |-> Num(1, 10),
         Theta |-> mul(Num(-1, 100), time_to_expiry),
         Vega |-> mul(Num(2, 10), volatility),
         Rho |-> mul(Num(5, 100), interest_rate)]

calculate_greeks(option_type, stock_price, strike_price, time_to_expiry, volatility, interest_rate) ==
    LET delta == IF option_type = "Call" THEN Num(1, 2) ELSE Num(-1, 2)
        gamma == Num(1, 10)
        theta == mul(Num(-1, 100), time_to_expiry)
        vega  == mul(Num(2, 10), volatility)
        rho   == mul(Num(5, 100), interest_rate)
    IN  [Delta |-> delta, Gamma |-> gamma, Theta |-> theta, Vega |-> vega,
         Rho |-> rho]

\* calculate_risk_reward with the sign of the risk tested before the zero guard
calculate_risk_reward_risk_first(entry_price, target_price, stop_loss_price) ==
    LET risk   == sub(entry_price, stop_loss_price)
        reward == sub(target_price, entry_price)
    IN  IF ~lt(Num(0, 1), risk) THEN Inf
        ELSE IF IsZero(entry_price) \/ IsZero(reward) THEN Num(0, 1)
        ELSE truediv(reward, risk)

calculate_risk_reward(entry_price, target_price, stop_loss_price) ==
    IF IsZero(entry_price) \/ IsZero(sub(target_price, entry_price))
    THEN Num(0, 1)
    ELSE LET risk   == sub(entry_price, stop_loss_price)
             reward == sub(target_price, entry_price)
         IN  IF lt(Num(0, 1), risk) THEN truediv(reward, risk) ELSE Inf

\* line 55
MaxRisk(total_capital, risk_tolerance) == mul(total_capital, risk_tolerance)

\* line 56 with a guard that returns 0 instead of dividing by zero
PositionSizeGuarded(total_capital, risk_tolerance, entry_price, stop_loss_price, contracts) ==
    IF entry_price = stop_loss_price THEN Num(0, 1)
    ELSE min(truediv(MaxRisk(total_capital, risk_tolerance),
                     sub(entry_price, stop_loss_price)),
             mul(mul(contracts, Num(100, 1)), entry_price))

\* line 56 with a division that yields inf for a zero divisor
PositionSizeInf(total_capital, risk_tolerance, entry_price, stop_loss_price, contracts) ==
    IF entry_price = stop_loss_price
    THEN mul(mul(contracts, Num(100, 1)), entry_price)
    ELSE min(truediv(MaxRisk(total_capital, risk_tolerance),
                     sub(entry_price, stop_loss_price)),
             mul(mul(contracts, Num(100, 1)), entry_price))

\* line 56 with max in place of min
PositionSizeMax(total_capital, risk_tolerance, entry_price, stop_loss_price, contracts) ==
    LET q == truediv(MaxRisk(total_capital, risk_tolerance),
                     sub(entry_price, stop_loss_price))
        cap == mul(mul(contracts, Num(100, 1)), entry_price)
    IN  IF q = ZeroDivisionError THEN ZeroDivisionError
        ELSE IF lt(q, cap) THEN cap ELSE q

\* line 56; the division raises before min is called
PositionSize(total_capital, risk_tolerance, entry_price, stop_loss_price, contracts) ==
    LET q == truediv(MaxRisk(total_capital, risk_tolerance),
                     sub(entry_price, stop_loss_price))
    IN  IF q = ZeroDivisionError THEN ZeroDivisionError
        ELSE min(q, mul(mul(contracts, Num(100, 1)), entry_price))

-----------------------------------------------------------------------------
(* One run of the script, lines 29-133 *)

\* st.session_state of a new session has no keys
NoKeys == [k \in {} |-> << >>]

\* the ledger: the list under "trade_history", empty while the key is absent
Ledger(ss) ==
    IF "trade_history" \in DOMAIN ss THEN ss["trade_history"] ELSE << >>

NoGreeks == [k \in {} |-> Unset]

\* lines 39-41 and 50: the values derived from the widgets
time_to_expiry(w) == Num(w.days_to_expiry, 365)
volatility(w) == truediv(w.volatility_pct, Num(100, 1))
interest_rate(w) == truediv(w.interest_rate_pct, Num(100, 1))
risk_tolerance(w) == truediv(w.risk_tolerance_pct, Num(100, 1))

\* lines 107-116: the dict built when Save Trade is pressed
Trade(w, size, ratio, id, date) ==
    [Trade_ID |-> id,
     Asset |-> w.underlying_asset,
     Option_Type |-> w.option_type,
     Strike_Price |-> w.strike_price,
     Entry_Price |-> w.entry_price,
     Position_Size |-> size,
     Risk_to_Reward |-> ratio,
     Date |-> date]

\* line 117 with the record inserted at the front of the list
prepend(history, trade) == << trade >> \o history

\* line 117: trade_history.append(trade)
append(history, trade) == Append(history, trade)

\* lines 104-105 without the "not in" test: the list is reset by every run
ResetHistory(ss) == ("trade_history" :> << >>)

\* lines 104-105: create the list on the first run that gets this far
InitHistory(ss) ==
    IF "trade_history" \notin DOMAIN ss THEN ("trade_history" :> << >>) ELSE ss

\* lines 63-68 and 72: what is on the page when line 73 is evaluated
PageBeforeContracts == << "greeks_table", "risk_reward_ratio" >>

\* lines 73-101: the rest of the risk analysis
PageAfterContracts ==
    << "position_size_contracts", "max_loss", "time_to_expiry", "risk_notes",
       "portfolio_chart", "tips" >>

\* lines 104-124: the Save Trade button, the append, the history table.
\* uuid.uuid4() is modelled as a generator that never repeats: the k-th call
\* returns identifier k (a collision of two random 122-bit values is not
\* modelled).  datetime.now() is the clock value of the run.
SaveAndShow(w, ss, size, ratio, issued, clock) ==
    LET ss1 == InitHistory(ss)
        pressed == w.save_trade
        ss2 == IF pressed
               THEN [ss1 EXCEPT !["trade_history"] =
                        append(@, Trade(w, size, ratio, issued + 1, clock))]
               ELSE ss1
        shown == ss2["trade_history"] # << >>
    IN  [session_state |-> ss2,
         uuids_issued |-> IF pressed THEN issued + 1 ELSE issued,
         page |-> << "save_button" >>
                  \o (IF pressed THEN << "success" >> ELSE << >>)
                  \o (IF shown THEN << "history_table" >> ELSE << >>)
                  \o << "learning_resources" >>,
         history_table |-> IF shown THEN ss2["trade_history"] ELSE << >>]

\* the whole script: the values of all variables when the run ends.  An
\* uncaught exception ends the run at the line that raised it: nothing
\* below that line is executed or rendered.
Script(w, ss, issued, clock) ==
    LET mr == MaxRisk(w.total_capital, risk_tolerance(w))
        ps == PositionSize(w.total_capital, risk_tolerance(w), w.entry_price,
                           w.stop_loss_price, w.contracts)
    IN  IF ps = ZeroDivisionError
        THEN [session_state |-> ss, max_risk |-> mr, position_size |-> Unset,
              greeks |-> NoGreeks, risk_reward_ratio |-> Unset,
              contracts_shown |-> Unset, page |-> << "exception" >>,
              history_table |-> << >>, uuids_issued |-> issued,
              outcome |-> "ZeroDivisionError at line 56"]
        ELSE
        LET g == calculate_greeks(w.option_type, w.stock_price, w.strike_price,
                                  time_to_expiry(w), volatility(w),
                                  interest_rate(w))
            rr == calculate_risk_reward(w.entry_price, w.take_profit_price,
                                        w.stop_loss_price)
            cs == truediv(ps, mul(Num(100, 1), w.entry_price))
        IN  IF cs = ZeroDivisionError
            THEN [session_state |-> ss, max_risk |-> mr, position_size |-> ps,
                  greeks |-> g, risk_reward_ratio |-> rr,
                  contracts_shown |-> Unset,
                  page |-> PageBeforeContracts \o << "exception" >>,
                  history_table |-> << >>, uuids_issued |-> issued,
                  outcome |-> "ZeroDivisionError at line 73"]
            ELSE
            LET s == SaveAndShow(w, ss, ps, rr, issued, clock)
            IN  [session_state |-> s.session_state, max_risk |-> mr,
                 position_size |-> ps, greeks |-> g, risk_reward_ratio |-> rr,
                 contracts_shown |-> cs,
                 page |-> PageBeforeContracts \o PageAfterContracts \o s.page,
                 history_table |-> s.history_table,
                 uuids_issued |-> s.uuids_issued,
                 outcome |-> "ok"]

-----------------------------------------------------------------------------
(* The session *)

\* lines 34-50: the default value of every widget; the button is not pressed
Defaults ==
    [option_type |-> "Call", underlying_asset |-> "SPY",
     stock_price |-> Num(100, 1), strike_price |-> Num(100, 1),
     days_to_expiry |-> 0, volatility_pct |-> Num(20, 1),
     interest_rate_pct |-> Num(5, 1), entry_price |-> Num(5, 1),
     contracts |-> Num(1, 1), stop_loss_price |-> Num(3, 1),
     take_profit_price |-> Num(8, 1), total_capital |-> Num(10000, 1),
     risk_tolerance_pct |-> Num(1, 1), save_trade |-> FALSE]

\* the widget values a user of the modelled session enters
SessionInputs ==
    [option_type : {"Call", "Put"}, underlying_asset : {"SPY"},
     stock_price : {Num(100, 1)}, strike_price : {Num(100, 1)},
     days_to_expiry : {0}, volatility_pct : {Num(20, 1)},
     interest_rate_pct : {Num(5, 1)},
     entry_price : {Num(0, 1), Num(3, 1), Num(5, 1)},
     contracts : {Num(1, 1)},
     stop_loss_price : {Num(3, 1), Num(5, 1)},
     take_profit_price : {Num(5, 1), Num(8, 1)},
     total_capital : {Num(10000, 1)},
     risk_tolerance_pct : {Num(1, 1)}, save_trade : BOOLEAN]

Init ==
    /\ session_state = NoKeys
    /\ widgets = Defaults
    /\ max_risk = Unset
    /\ position_size = Unset
    /\ greeks = NoGreeks
    /\ risk_reward_ratio = Unset
    /\ contracts_shown = Unset
    /\ page = << >>
    /\ history_table = << >>
    /\ outcome = "not run"
    /\ uuids_issued = 0
    /\ now = 0
    /\ call = [fn |-> "none"]

\* Streamlit runs the script when the page is opened (all widgets at their
\* defaults) and again on every interaction.  The Save Trade button can be
\* pressed only if the previous run rendered it.  A changed widget value and
\* the button press can reach the same run, so a run that reads the press
\* may read any widget values.
Rerun ==
    /\ now < MaxRuns
    /\ \E w \in SessionInputs :
        /\ now = 0 => w = Defaults
        /\ w.save_trade => \E i \in 1..Len(page) : page[i] = "save_button"
        /\ widgets' = w
        /\ LET r == Script(w, session_state, uuids_issued, now + 1)
           IN  /\ session_state' = r.session_state
               /\ max_risk' = r.max_risk
               /\ position_size' = r.position_size
               /\ greeks' = r.greeks
               /\ risk_reward_ratio' = r.risk_reward_ratio
               /\ contracts_shown' = r.contracts_shown
               /\ page' = r.page
               /\ history_table' = r.history_table
               /\ outcome' = r.outcome
               /\ uuids_issued' = r.uuids_issued
    /\ now' = now + 1
    /\ UNCHANGED call

Next == Rerun

Spec == Init /\ [][Next]_vars

-----------------------------------------------------------------------------
(* The calculators called directly, outside a run of the script: one call  *)
(* of one calculator, on arguments drawn from the sets below                *)

\* the upper end of the risk tolerance slider, in percent
SliderMax == 10

\* prices in steps of half a dollar
Prices == { Num(p, 2) : p \in 0..(2 * MaxPrice) }
Contracts == { Num(c, 1) : c \in 1..MaxContracts }
Capitals == { Num(0, 1), Num(1000, 1), Num(10000, 1) }
RiskTolerances == { truediv(Num(p, 1), Num(100, 1)) : p \in 0..SliderMax }
Fractions == { truediv(Num(p, 1), Num(100, 1)) : p \in 0..MaxPercent }
Expiries == { Num(days, 365) : days \in 0..MaxDays }

CallGreeks ==
    /\ call.fn = "none"
    /\ \E option_type \in {"Call", "Put"}, stock_price \in Prices,
          strike_price \in Prices, t \in Expiries, v \in Fractions,
          r \in Fractions :
        call' = [fn |-> "calculate_greeks",
                 args |-> [option_type |-> option_type,
                           stock_price |-> stock_price,
                           strike_price |-> strike_price,
                           time_to_expiry |-> t, volatility |-> v,
                           interest_rate |-> r],
                 result |-> calculate_greeks(option_type, stock_price,
                                             strike_price, t, v, r)]
    /\ UNCHANGED session_vars

CallRiskReward ==
    /\ call.fn = "none"
    /\ \E entry_price \in Prices, target_price \in Prices,
          stop_loss_price \in Prices :
        call' = [fn |-> "calculate_risk_reward",
                 args |-> [entry_price |-> entry_price,
                           target_price |-> target_price,
                           stop_loss_price |-> stop_loss_price],
                 result |-> calculate_risk_reward(entry_price, target_price,
                                                  stop_loss_price)]
    /\ UNCHANGED session_vars

CallPositionSize ==
    /\ call.fn = "none"
    /\ \E total_capital \in Capitals, tolerance \in RiskTolerances,
          entry_price \in Prices, stop_loss_price \in Prices,
          n \in Contracts :
        call' = [fn |-> "position_size",
                 args |-> [total_capital |-> total_capital,
                           risk_tolerance |-> tolerance,
                           entry_price |-> entry_price,
                           stop_loss_price |-> stop_loss_price,
                           contracts |-> n],
                 max_risk |-> MaxRisk(total_capital, tolerance),
                 result |-> PositionSize(total_capital, tolerance, entry_price,
                                         stop_loss_price, n)]
    /\ UNCHANGED session_vars

NextCalc == CallGreeks \/ CallRiskReward \/ CallPositionSize

SpecCalc == Init /\ [][NextCalc]_vars

-----------------------------------------------------------------------------
(* Properties of the calculators, checked under SpecCalc *)

Zero == Num(0, 1)

\* C3: for non-negative prices calculate_risk_reward returns 0 when the entry
\* price is 0 or the target equals the entry, also when the risk is not
\* positive at the same time; otherwise reward / risk when entry > stop and
\* inf when entry <= stop; it never raises.
C3_RiskRewardCases ==
    call.fn = "calculate_risk_reward" =>
        LET e == call.args.entry_price
            t == call.args.target_price
            s == call.args.stop_loss_price
            r == call.result
        IN  /\ r # ZeroDivisionError
            /\ (e = Zero \/ t = e) => r = Zero
            /\ (e # Zero /\ t # e /\ lt(s, e)) =>
                   /\ IsNum(r)
                   /\ mul(r, sub(e, s)) = sub(t, e)
            /\ (e # Zero /\ t # e /\ ~lt(s, e)) => r = Inf
            /\ (e = Num(5, 1) /\ t = Num(5, 1) /\ s = Num(3, 1)) => r = Zero
            /\ (e = Num(5, 1) /\ t = Num(8, 1) /\ s = Num(3, 1)) => r = Num(3, 2)
            /\ (e = Num(5, 1) /\ t = Num(8, 1) /\ s = Num(6, 1)) => r = Inf

\* a call with zero reward and negative risk returned 0
C3_Witness ==
    /\ call.fn = "calculate_risk_reward"
    /\ call.args.entry_price = Num(5, 1)
    /\ call.args.target_price = Num(5, 1)
    /\ call.args.stop_loss_price = Num(6, 1)
    /\ call.result = Zero

\* C4: when the entry price equals the stop-loss price the position sizing
\* ends in a ZeroDivisionError, whatever the capital, the risk tolerance and
\* the number of contracts; it yields no number, no inf and no 0.
C4_EqualPricesRaise ==
    (call.fn = "position_size"
        /\ call.args.entry_price = call.args.stop_loss_price) =>
        /\ call.result = ZeroDivisionError
        /\ ~IsNum(call.result)
        /\ call.result # Inf

\* the division 0 / 0 (no capital at risk) raised as well
C4_Witness ==
    /\ call.fn = "position_size"
    /\ call.args.entry_price = call.args.stop_loss_price
    /\ call.args.total_capital = Zero
    /\ call.args.risk_tolerance = Zero
    /\ call.result = ZeroDivisionError

\* C5: when the entry price differs from the stop-loss price the position
\* size is min(capital * tolerance / (entry - stop), contracts * 100 * entry)
\* and the max loss per trade is capital * tolerance.
C5_PositionSizeFormula ==
    (call.fn = "position_size"
        /\ call.args.entry_price # call.args.stop_loss_price) =>
        LET a == call.args
            r == call.result
            holding == Num(a.contracts.n * 100 * a.entry_price.n,
                           a.contracts.d * a.entry_price.d)
            diff == sub(a.entry_price, a.stop_loss_price)
            \* r = max_risk / diff, stated without a division
            from_risk(x) == mul(x, diff) = call.max_risk
            \* holding < max_risk / diff, stated without a division
            holding_less ==
                IF lt(Zero, diff) THEN lt(mul(holding, diff), call.max_risk)
                ELSE lt(call.max_risk, mul(holding, diff))
        IN  /\ call.max_risk.n * a.total_capital.d * a.risk_tolerance.d
                   = call.max_risk.d * a.total_capital.n * a.risk_tolerance.n
            /\ IsNum(r)
            /\ IF holding_less THEN r = holding ELSE from_risk(r)
            /\ (a.total_capital = Num(10000, 1)
                  /\ a.risk_tolerance = Num(1, 100)
                  /\ a.entry_price = Num(5, 1)
                  /\ a.stop_loss_price = Num(3, 1)
                  /\ a.contracts = Num(1, 1)) => r = Num(50, 1)

\* the example of the specification: 10000 at 1% with entry 5, stop 3 gives 50
C5_Witness ==
    /\ call.fn = "position_size"
    /\ call.args.total_capital = Num(10000, 1)
    /\ call.args.risk_tolerance = Num(1, 100)
    /\ call.args.entry_price = Num(5, 1)
    /\ call.args.stop_loss_price = Num(3, 1)
    /\ call.args.contracts = Num(1, 1)
    /\ call.result = Num(50, 1)
    /\ call.max_risk = Num(100, 1)

\* C6: calculate_greeks returns a mapping with exactly the keys Delta, Gamma,
\* Theta, Vega, Rho and never raises; Delta is 0.5 for a Call and -0.5
\* otherwise, Gamma is 0.1, Theta = -0.01 * time to expiry, Vega = 0.2 *
\* volatility, Rho = 0.05 * interest rate; the stock price and the strike
\* price influence none of them.
C6_GreeksValues ==
    call.fn = "calculate_greeks" =>
        LET a == call.args
            g == call.result
        IN  /\ DOMAIN g = GreekKeys
            /\ \A k \in GreekKeys : IsNum(g[k])
            /\ g.Delta = (IF a.option_type = "Call" THEN Num(1, 2)
                          ELSE Num(-1, 2))
            /\ g.Gamma = Num(1, 10)
            /\ g.Theta.n * 100 * a.time_to_expiry.d
                   = -(a.time_to_expiry.n) * g.Theta.d
            /\ g.Vega.n * 10 * a.volatility.d = 2 * a.volatility.n * g.Vega.d
            /\ g.Rho.n * 100 * a.interest_rate.d
                   = 5 * a.interest_rate.n * g.Rho.d
            /\ \A stock_price \in {Zero, Num(MaxPrice, 1)},
                  strike_price \in {Zero, Num(MaxPrice, 1)} :
                   calculate_greeks(a.option_type, stock_price, strike_price,
                                    a.time_to_expiry, a.volatility,
                                    a.interest_rate) = g

\* a Put deep out of the money still has Delta -0.5
C6_Witness ==
    /\ call.fn = "calculate_greeks"
    /\ call.args.option_type = "Put"
    /\ call.args.stock_price = Num(MaxPrice, 1)
    /\ call.args.strike_price = Num(1, 1)
    /\ call.args.time_to_expiry = Num(1, 365)
    /\ call.result.Delta = Num(-1, 2)
    /\ call.result.Theta = Num(-1, 36500)

-----------------------------------------------------------------------------
(* Properties of the session, checked under Spec *)

IsPrefix(s, t) == Len(s) <= Len(t) /\ SubSeq(t, 1, Len(s)) = s

Rendered(element) == \E i \in 1..Len(page) : page[i] = element

DistinctIds(rows) ==
    \A i, j \in 1..Len(rows) : i # j => rows[i].Trade_ID # rows[j].Trade_ID

\* the list before and after the step
Before == Ledger(session_state)
After == Ledger(session_state')

\* C1: starting from the empty ledger, after N appends the history table lists
\* exactly N records, oldest first, with pairwise different trade identifiers,
\* and two listings with no append between them are equal.  Stated step by
\* step: a run that appends lists the previous ledger followed by one record
\* with a new identifier, a run that does not append lists the previous
\* ledger, and consecutive listings without an append are equal.
C1_ListAfterAppends ==
    /\ [](outcome = "ok" =>
            /\ history_table = Ledger(session_state)
            /\ Len(history_table) = uuids_issued
            /\ DistinctIds(history_table))
    /\ [][outcome' = "ok" =>
            /\ widgets'.save_trade =>
                  /\ Len(history_table') = Len(Before) + 1
                  /\ IsPrefix(Before, history_table')
                  /\ \A i \in 1..Len(Before) :
                        Before[i].Trade_ID
                            # history_table'[Len(history_table')].Trade_ID
            /\ ~widgets'.save_trade => history_table' = Before
            /\ (~widgets'.save_trade /\ outcome = "ok") =>
                  history_table' = history_table]_vars

\* three appends were made and three rows are listed
C1_Witness ==
    /\ outcome = "ok"
    /\ uuids_issued = 3
    /\ Len(history_table) = 3
    /\ history_table[1].Date < history_table[2].Date
    /\ history_table[2].Date < history_table[3].Date

\* C2: the ledger is append-only: in every step the ledger before the step is
\* a prefix of the ledger after it, so no record is removed, reordered or
\* changed and the length never decreases.
C2_AppendOnly == [][IsPrefix(Before, After)]_vars

\* a run that failed after two records had been stored
C2_Witness ==
    /\ Len(Ledger(session_state)) = 2
    /\ outcome # "ok"

\* C8: a run whose entry price equals the stop-loss price stops at the
\* position sizing with the error: no Greeks, ratio or position size is
\* produced or rendered, no record is appended and the session state is left
\* as it was, whether or not Save Trade was pressed.
C8_SizingErrorStopsRun ==
    [][widgets'.entry_price = widgets'.stop_loss_price =>
          /\ outcome' = "ZeroDivisionError at line 56"
          /\ position_size' = Unset
          /\ greeks' = NoGreeks
          /\ risk_reward_ratio' = Unset
          /\ contracts_shown' = Unset
          /\ page' = << "exception" >>
          /\ history_table' = << >>
          /\ session_state' = session_state
          /\ uuids_issued' = uuids_issued]_vars

\* Save Trade was pressed in a run that raised, with a record already stored
C8_Witness ==
    /\ outcome = "ZeroDivisionError at line 56"
    /\ widgets.save_trade
    /\ widgets.entry_price = widgets.stop_loss_price
    /\ Len(Ledger(session_state)) = 1
    /\ ~Rendered("greeks_table")

\* C7: the ledger changes only through Save Trade: a run in which it is not
\* pressed leaves the ledger unchanged, and a run in which it is pressed
\* appends exactly one record holding that run's asset, option type, strike
\* price, entry price, position size and risk-to-reward ratio.  Runs that end
\* in the sizing error of C8 (entry price = stop-loss price) are left out.
C7_SaveAppendsOne ==
    [][/\ ~widgets'.save_trade => After = Before
       /\ (widgets'.save_trade
              /\ widgets'.entry_price # widgets'.stop_loss_price) =>
              /\ Len(After) = Len(Before) + 1
              /\ IsPrefix(Before, After)
              /\ After[Len(After)].Asset = widgets'.underlying_asset
              /\ After[Len(After)].Option_Type = widgets'.option_type
              /\ After[Len(After)].Strike_Price = widgets'.strike_price
              /\ After[Len(After)].Entry_Price = widgets'.entry_price
              /\ After[Len(After)].Position_Size = position_size'
              /\ After[Len(After)].Risk_to_Reward = risk_reward_ratio']_vars

\* C9: for valid inputs with entry price # stop-loss price the position size
\* is at least 0 and at most contracts * 100 * entry price, and no stored
\* record has a negative position size.  Stated of the runs that end without
\* an error, the only ones that can store a record.
C9_PositionSizeBounded ==
    /\ outcome = "ok" =>
          /\ ~lt(position_size, Zero)
          /\ ~lt(mul(mul(widgets.contracts, Num(100, 1)), widgets.entry_price),
                 position_size)
    /\ \A i \in 1..Len(Ledger(session_state)) :
          ~lt(Ledger(session_state)[i].Position_Size, Zero)

\* C10: a run with valid inputs and entry price # stop-loss price (entry
\* price 0 included) ends without an error and yields every field of the
\* report, the position size in contracts included.
C10_OnlyEqualPricesFail ==
    (outcome # "not run" /\ widgets.entry_price # widgets.stop_loss_price) =>
        /\ outcome = "ok"
        /\ DOMAIN greeks = GreekKeys
        /\ risk_reward_ratio # Unset
        /\ IsNum(position_size)
        /\ IsNum(contracts_shown)
        /\ IsNum(max_risk)
        /\ Rendered("position_size_contracts")

====
